---------------------------- MODULE Spec2Model ----------------------------
(***************************************************************************)
(* A model of py/server/deephaven/agg.py: the Aggregation wrapper class,   *)
(* its three read-only properties and the factory functions that build     *)
(* Aggregation objects.                                                    *)
(*                                                                         *)
(* Python values are tagged records (field t is the Python type).  A      *)
(* Python str is a sequence of one-character strings, so that a column     *)
(* expression such as "b=a" can be taken apart.  A Java object obtained    *)
(* through jpy is a record naming the engine interface, the static method  *)
(* that produced it and the arguments it was given.                        *)
(***************************************************************************)
EXTENDS Integers, Sequences, FiniteSets, TLC

VARIABLES call, res, obj, hist

vars == <<call, res, obj, hist>>

(***************************************************************************)
(* Bounds of the model.                                                    *)
(***************************************************************************)
\* longest column list (and filter list) handed to a factory
MaxCols == 2
\* most property reads made on one Aggregation object
MaxReads == 3

(***************************************************************************)
(* Python values.                                                          *)
(***************************************************************************)
PyNone == [t |-> "None"]
PyStr(s) == [t |-> "str", s |-> s]
PyInt(n) == [t |-> "int", n |-> n]
PyBool(b) == [t |-> "bool", b |-> b]
PyList(l) == [t |-> "list", l |-> l]

\* Python's truth test, as applied by `if x:` and `if not x:`
Truthy(v) ==
    CASE v.t = "None" -> FALSE
      [] v.t = "str" -> v.s # <<>>
      [] v.t = "int" -> v.n # 0
      [] v.t = "bool" -> v.b
      [] v.t = "list" -> v.l # <<>>
      [] OTHER -> TRUE

\* isinstance(v, str)
IsStr(v) == v.t = "str"

(***************************************************************************)
(* Outcomes of a call: a returned value or a raised exception, together    *)
(* with the engine (jpy) calls the call made, in order.                    *)
(***************************************************************************)
Return(v, jcalls) == [kind |-> "return", value |-> v, exc |-> "", msg |-> "", jcalls |-> jcalls]
Raise(exc, msg, jcalls) == [kind |-> "raise", value |-> PyNone, exc |-> exc, msg |-> msg, jcalls |-> jcalls]
DHError(msg, jcalls) == Raise("DHError", msg, jcalls)

(***************************************************************************)
(* The engine side, reached through jpy.  A Java object records the        *)
(* interface and static method that produced it and its arguments.         *)
(***************************************************************************)
JObject(iface, method, args) == [t |-> "J", iface |-> iface, method |-> method, args |-> args]

\* _JAggSpec.<method>(*args): an aggregation spec, not yet bound to columns
JAggSpec(method, args) == JObject("AggSpec", method, args)

\* _JAggregation.<method>(*args): a complete aggregation
JAggregation(method, args) == JObject("Aggregation", method, args)

\* _JUnionObject.of(v)
JUnionObject(v) == JObject("UnionObject", "of", <<v>>)

\* the Java class of an object: AggSpec.formula yields an AggSpecFormula and
\* Aggregation.AggFormula yields a Formula; every other method yields a class
\* of its own
JClass(j) ==
    IF j.t # "J" THEN "not-java"
    ELSE IF j.iface = "AggSpec" /\ j.method = "formula" THEN "io.deephaven.api.agg.spec.AggSpecFormula"
    ELSE IF j.iface = "Aggregation" /\ j.method = "AggFormula" THEN "io.deephaven.api.agg.Formula"
    ELSE "other"

\* isinstance(v, jpy.get_type(cls))
IsInstance(v, cls) == JClass(v) = cls

\* number of "=" characters of a string
RECURSIVE CountEq(_)
CountEq(s) == IF s = <<>> THEN 0 ELSE (IF Head(s) = "=" THEN 1 ELSE 0) + CountEq(Tail(s))

\* index of the first "=" of a string that has one
RECURSIVE IndexEq(_)
IndexEq(s) == IF Head(s) = "=" THEN 1 ELSE 1 + IndexEq(Tail(s))

\* whether a column expression is a plain column name or one "new = source" rename
Parses(col) == IsStr(col) /\ CountEq(col.s) <= 1

\* _JPair.parse(col): a plain name is the pair (name, name); "new=source" is the
\* pair (new, source); anything else is rejected by the engine
JPairParse(col) ==
    IF ~Parses(col) THEN Raise("JavaException", "cannot parse pair", <<>>)
    ELSE IF CountEq(col.s) = 0
         THEN Return([t |-> "J", iface |-> "Pair", output |-> col.s, input |-> col.s], <<>>)
         ELSE Return([t |-> "J", iface |-> "Pair",
                      output |-> SubSeq(col.s, 1, IndexEq(col.s) - 1),
                      input |-> SubSeq(col.s, IndexEq(col.s) + 1, Len(col.s))], <<>>)

\* spec.aggregation(*pairs): the spec bound to the pairs, one output column each
JSpecAggregation(spec, pairs) == [t |-> "J", iface |-> "Aggregation", method |-> "aggregation", spec |-> spec, pairs |-> pairs]

\* deephaven.jcompat.to_sequence: None is the empty sequence, a list is its
\* elements, any other single value is a one-element sequence (the single
\* column and filter strings it is applied to here are non-empty)
to_sequence(v) ==
    IF v.t = "None" THEN <<>>
    ELSE IF v.t = "list" THEN v.l
    ELSE <<v>>

\* deephaven.filters.and_: one Filter, the conjunction of the given filters
and_(filters) == [t |-> "Filter", j_filter |-> JObject("Filter", "and", filters)]

\* the value of an engine filter on a row; row maps each filter expression to
\* its truth value on that row
RECURSIVE JFilterEval(_, _)
JFilterEval(f, row) ==
    IF f.t = "str" THEN row[f]
    ELSE IF f.t = "Filter" THEN JFilterEval(f.j_filter, row)
    ELSE IF f.method = "and" THEN \A i \in 1..Len(f.args) : JFilterEval(f.args[i], row)
    ELSE IF f.method = "or" THEN \E i \in 1..Len(f.args) : JFilterEval(f.args[i], row)
    ELSE row[f.args[1]]

(***************************************************************************)
(* class Aggregation                                                       *)
(***************************************************************************)
\* Aggregation.__init__
Aggregation(j_agg_spec_, j_aggregation_, cols) ==
    [_j_agg_spec |-> j_agg_spec_, _j_aggregation |-> j_aggregation_, _cols |-> to_sequence(cols)]

\* the outcome of a property read: the result and the object afterwards
Got(r, self) == [r |-> r, self |-> self]

\* the leading columns of cols that parse, up to and including the first that
\* does not: the _JPair.parse calls the list comprehension makes
RECURSIVE ParsedPrefix(_)
ParsedPrefix(cols) ==
    IF cols = <<>> THEN <<>>
    ELSE IF ~Parses(Head(cols)) THEN <<Head(cols)>>
    ELSE <<Head(cols)>> \o ParsedPrefix(Tail(cols))

\* the binding with only the first column passed on
BindCols_first(self) ==
    IF self._j_agg_spec.t = "None" THEN Raise("AttributeError", "'NoneType' object has no attribute 'aggregation'", <<>>)
    ELSE IF ~Parses(self._cols[1])
         THEN Raise("JavaException", "cannot parse pair", <<self._cols[1]>>)
         ELSE Return(JSpecAggregation(self._j_agg_spec, <<JPairParse(self._cols[1]).value>>), <<self._cols[1]>>)

\* self._j_agg_spec.aggregation(*[_JPair.parse(col) for col in self._cols])
BindCols(self) ==
    IF self._j_agg_spec.t = "None" THEN Raise("AttributeError", "'NoneType' object has no attribute 'aggregation'", <<>>)
    ELSE IF \E i \in 1..Len(self._cols) : ~Parses(self._cols[i])
         THEN Raise("JavaException", "cannot parse pair", ParsedPrefix(self._cols))
         ELSE Return(JSpecAggregation(self._j_agg_spec,
                                      [i \in 1..Len(self._cols) |-> JPairParse(self._cols[i]).value]),
                     self._cols)

\* j_aggregation keeping the aggregation it built in self._j_aggregation
j_aggregation_caching(self) ==
    IF Truthy(self._j_aggregation) THEN Got(Return(self._j_aggregation, <<>>), self)
    ELSE IF self._cols = <<>>
         THEN Got(DHError("No columns specified for the aggregation operation.", <<>>), self)
         ELSE Got(BindCols(self),
                  IF BindCols(self).kind = "return"
                  THEN [self EXCEPT !._j_aggregation = BindCols(self).value]
                  ELSE self)

\* Aggregation.j_aggregation
j_aggregation(self) ==
    IF Truthy(self._j_aggregation) THEN Got(Return(self._j_aggregation, <<>>), self)
    ELSE IF self._cols = <<>>
         THEN Got(DHError("No columns specified for the aggregation operation.", <<>>), self)
         ELSE Got(BindCols(self), self)

\* j_agg_spec without the guard for complete aggregations
j_agg_spec_unguarded(self) == Got(Return(self._j_agg_spec, <<>>), self)

\* Aggregation.j_agg_spec
j_agg_spec(self) ==
    IF Truthy(self._j_aggregation) THEN Got(DHError("unsupported aggregation operation.", <<>>), self)
    ELSE Got(Return(self._j_agg_spec, <<>>), self)

\* is_formula recognising only the spec form of a formula
is_formula_spec_only(self) ==
    IF self._j_agg_spec # PyNone
    THEN Got(Return(PyBool(IsInstance(self._j_agg_spec, "io.deephaven.api.agg.spec.AggSpecFormula")), <<>>), self)
    ELSE IF self._j_aggregation # PyNone
         THEN Got(Return(PyBool(FALSE), <<>>), self)
         ELSE Got(DHError("Aggregation object is not initialized with a valid aggregation specification or aggregation object.", <<>>), self)

\* Aggregation.is_formula
is_formula(self) ==
    IF self._j_agg_spec # PyNone
    THEN Got(Return(PyBool(IsInstance(self._j_agg_spec, "io.deephaven.api.agg.spec.AggSpecFormula")), <<>>), self)
    ELSE IF self._j_aggregation # PyNone
         THEN Got(Return(PyBool(IsInstance(self._j_aggregation, "io.deephaven.api.agg.Formula")), <<>>), self)
         ELSE Got(DHError("Aggregation object is not initialized with a valid aggregation specification or aggregation object.", <<>>), self)

(***************************************************************************)
(* The factory functions.  Each yields the outcome of one call: the        *)
(* Aggregation returned or the DHError raised, and the engine calls made.  *)
(***************************************************************************)
\* sum_ as it would be if the column expressions were parsed at construction
sum_eager(cols) ==
    IF \E i \in 1..Len(to_sequence(cols)) : ~Parses(to_sequence(cols)[i])
    THEN DHError("cannot parse pair", <<"AggSpec.sum">>)
    ELSE Return(Aggregation(JAggSpec("sum", <<>>), PyNone, cols), <<"AggSpec.sum">>)

\* sum_(cols)
sum_(cols) == Return(Aggregation(JAggSpec("sum", <<>>), PyNone, cols), <<"AggSpec.sum">>)

\* abs_sum(cols)
abs_sum(cols) == Return(Aggregation(JAggSpec("absSum", <<>>), PyNone, cols), <<"AggSpec.absSum">>)

\* group(cols)
group(cols) == Return(Aggregation(JAggSpec("group", <<>>), PyNone, cols), <<"AggSpec.group">>)

\* avg(cols)
avg(cols) == Return(Aggregation(JAggSpec("avg", <<>>), PyNone, cols), <<"AggSpec.avg">>)

\* count_ with the engine object created before col is checked
count_late_check(col) ==
    IF ~IsStr(col)
    THEN DHError("count_ aggregation requires a string value for the 'col' argument.", <<"Aggregation.AggCount">>)
    ELSE Return(Aggregation(PyNone, JAggregation("AggCount", <<col>>), PyNone), <<"Aggregation.AggCount">>)

\* count_(col)
count_(col) ==
    IF ~IsStr(col)
    THEN DHError("count_ aggregation requires a string value for the 'col' argument.", <<>>)
    ELSE Return(Aggregation(PyNone, JAggregation("AggCount", <<col>>), PyNone), <<"Aggregation.AggCount">>)

\* count_where with the filters composed by or instead of and
count_where_any(col, filters) ==
    IF ~IsStr(col)
    THEN DHError("count_where aggregation requires a string value for the 'col' argument.", <<>>)
    ELSE Return(Aggregation(PyNone, JAggregation("AggCountWhere", <<col, JObject("Filter", "or", to_sequence(filters))>>), PyNone),
                <<"filters.and_", "Aggregation.AggCountWhere">>)

\* count_where(col, filters)
count_where(col, filters) ==
    IF ~IsStr(col)
    THEN DHError("count_where aggregation requires a string value for the 'col' argument.", <<>>)
    ELSE Return(Aggregation(PyNone, JAggregation("AggCountWhere", <<col, and_(to_sequence(filters)).j_filter>>), PyNone),
                <<"filters.and_", "Aggregation.AggCountWhere">>)

\* partition(col, include_by_columns)
partition(col, include_by_columns) ==
    IF ~IsStr(col)
    THEN DHError("partition aggregation requires a string value for the 'col' argument.", <<>>)
    ELSE Return(Aggregation(PyNone, JAggregation("AggPartition", <<col, include_by_columns>>), PyNone),
                <<"Aggregation.AggPartition">>)

\* count_distinct(cols, count_nulls)
count_distinct(cols, count_nulls) == Return(Aggregation(JAggSpec("countDistinct", <<count_nulls>>), PyNone, cols), <<"AggSpec.countDistinct">>)

\* first(cols)
first(cols) == Return(Aggregation(JAggSpec("first", <<>>), PyNone, cols), <<"AggSpec.first">>)

\* formula with the parameterized mode rejecting a missing column list
formula_eager(formula_, formula_param, cols) ==
    IF Truthy(formula_param)
    THEN IF Truthy(cols)
         THEN Return(Aggregation(JAggSpec("formula", <<formula_, formula_param>>), PyNone, cols), <<"AggSpec.formula">>)
         ELSE DHError("No columns specified for the aggregation operation.", <<>>)
    ELSE IF Truthy(cols)
         THEN DHError("The 'cols' argument is only valid when 'formula_param' is provided.", <<>>)
         ELSE Return(Aggregation(PyNone, JAggregation("AggFormula", <<formula_>>), PyNone), <<"Aggregation.AggFormula">>)

\* formula without the check of cols in the self-contained mode
formula_unchecked(formula_, formula_param, cols) ==
    IF Truthy(formula_param)
    THEN Return(Aggregation(JAggSpec("formula", <<formula_, formula_param>>), PyNone, cols), <<"AggSpec.formula">>)
    ELSE Return(Aggregation(PyNone, JAggregation("AggFormula", <<formula_>>), PyNone), <<"Aggregation.AggFormula">>)

\* formula(formula, formula_param, cols)
formula(formula_, formula_param, cols) ==
    IF Truthy(formula_param)
    THEN Return(Aggregation(JAggSpec("formula", <<formula_, formula_param>>), PyNone, cols), <<"AggSpec.formula">>)
    ELSE IF Truthy(cols)
         THEN DHError("The 'cols' argument is only valid when 'formula_param' is provided.", <<>>)
         ELSE Return(Aggregation(PyNone, JAggregation("AggFormula", <<formula_>>), PyNone), <<"Aggregation.AggFormula">>)

\* last(cols)
last(cols) == Return(Aggregation(JAggSpec("last", <<>>), PyNone, cols), <<"AggSpec.last">>)

\* min_(cols)
min_(cols) == Return(Aggregation(JAggSpec("min", <<>>), PyNone, cols), <<"AggSpec.min">>)

\* max_(cols)
max_(cols) == Return(Aggregation(JAggSpec("max", <<>>), PyNone, cols), <<"AggSpec.max">>)

\* median(cols, average_evenly_divided)
median(cols, average_evenly_divided) == Return(Aggregation(JAggSpec("median", <<average_evenly_divided>>), PyNone, cols), <<"AggSpec.median">>)

\* pct(percentile, cols, average_evenly_divided)
pct(percentile, cols, average_evenly_divided) ==
    Return(Aggregation(JAggSpec("percentile", <<percentile, average_evenly_divided>>), PyNone, cols), <<"AggSpec.percentile">>)

\* sorted_first(order_by, cols)
sorted_first(order_by, cols) == Return(Aggregation(JAggSpec("sortedFirst", <<order_by>>), PyNone, cols), <<"AggSpec.sortedFirst">>)

\* sorted_last(order_by, cols)
sorted_last(order_by, cols) == Return(Aggregation(JAggSpec("sortedLast", <<order_by>>), PyNone, cols), <<"AggSpec.sortedLast">>)

\* std(cols)
std(cols) == Return(Aggregation(JAggSpec("std", <<>>), PyNone, cols), <<"AggSpec.std">>)

\* unique testing the sentinel's truth value instead of `is None`
unique_falsy(cols, include_nulls, non_unique_sentinel) ==
    IF ~Truthy(non_unique_sentinel)
    THEN IF Truthy(include_nulls)
         THEN DHError("when include_nulls is True, a non-null sentinel value must be provided.", <<>>)
         ELSE Return(Aggregation(JAggSpec("unique", <<>>), PyNone, cols), <<"AggSpec.unique">>)
    ELSE Return(Aggregation(JAggSpec("unique", <<include_nulls, JUnionObject(non_unique_sentinel)>>), PyNone, cols),
                <<"UnionObject.of", "AggSpec.unique">>)

\* unique(cols, include_nulls, non_unique_sentinel)
unique(cols, include_nulls, non_unique_sentinel) ==
    IF non_unique_sentinel = PyNone
    THEN IF Truthy(include_nulls)
         THEN DHError("when include_nulls is True, a non-null sentinel value must be provided.", <<>>)
         ELSE Return(Aggregation(JAggSpec("unique", <<>>), PyNone, cols), <<"AggSpec.unique">>)
    ELSE Return(Aggregation(JAggSpec("unique", <<include_nulls, JUnionObject(non_unique_sentinel)>>), PyNone, cols),
                <<"UnionObject.of", "AggSpec.unique">>)

\* var(cols)
var(cols) == Return(Aggregation(JAggSpec("var", <<>>), PyNone, cols), <<"AggSpec.var">>)

\* weighted_avg(wcol, cols)
weighted_avg(wcol, cols) == Return(Aggregation(JAggSpec("wavg", <<wcol>>), PyNone, cols), <<"AggSpec.wavg">>)

\* weighted_sum(wcol, cols)
weighted_sum(wcol, cols) == Return(Aggregation(JAggSpec("wsum", <<wcol>>), PyNone, cols), <<"AggSpec.wsum">>)

\* distinct(cols, include_nulls)
distinct(cols, include_nulls) == Return(Aggregation(JAggSpec("distinct", <<include_nulls>>), PyNone, cols), <<"AggSpec.distinct">>)

(***************************************************************************)
(* Arguments the calls are tried with.                                     *)
(***************************************************************************)
SeqsUpTo(S, n) == UNION {[1..k -> S] : k \in 0..n}

\* column expressions: a plain name, a rename, and one with two "="
ColStrs == {PyStr(<<"a">>), PyStr(<<"b", "=", "a">>), PyStr(<<"a", "=", "b", "=", "c">>)}

\* the cols argument: None, one expression, or a list (possibly empty) of them
ColsInputs == {PyNone} \cup ColStrs \cup {PyList(l) : l \in SeqsUpTo(ColStrs, MaxCols)}

\* the col argument of count_, count_where and partition: strings and non-strings
ColArgs == {PyStr(<<"n">>), PyStr(<<>>), PyNone, PyInt(0), PyBool(TRUE), PyList(<<PyStr(<<"n">>)>>)}

\* filter expressions and Filter objects built from them
FilterExprs == {PyStr(<<"p">>), PyStr(<<"q">>)}
FilterObjs == {[t |-> "Filter", j_filter |-> JObject("Filter", "from", <<e>>)] : e \in FilterExprs}
FiltersInputs == FilterExprs \cup FilterObjs \cup {PyList(l) : l \in SeqsUpTo(FilterExprs \cup FilterObjs, MaxCols)}

\* rows, as far as filters see them: the truth value of each filter expression
Rows == [FilterExprs -> BOOLEAN]

Bools == {PyBool(FALSE), PyBool(TRUE)}
Formulas == {PyStr(<<"o", "=", "f">>)}
FormulaParams == {PyNone, PyStr(<<>>), PyStr(<<"e">>)}
Percentiles == {PyStr(<<"0", ".", "5">>), PyStr(<<"0", ".", "9">>)}
SortCols == {PyStr(<<"k">>), PyStr(<<"w">>)}
Sentinels == {PyNone, PyInt(0), PyBool(FALSE), PyStr(<<>>), PyInt(1)}

\* what Aggregation(...) is given when it is instantiated directly
DirectSpecs == {PyNone, JAggSpec("sum", <<>>), JAggSpec("formula", <<PyStr(<<"f">>), PyStr(<<"e">>)>>)}
DirectAggs == {PyNone, JAggregation("AggCount", <<PyStr(<<"n">>)>>), JAggregation("AggFormula", <<PyStr(<<"o", "=", "f">>)>>)}

(***************************************************************************)
(* The state: the last factory call and its outcome, the Aggregation it    *)
(* returned (if any), and the property reads made on that object so far.   *)
(* A behaviour follows one object: it is built by one call and then read.  *)
(***************************************************************************)
NoObj == [t |-> "NoObj"]
NoCall == [fn |-> "none", args |-> <<>>]
NoRes == [kind |-> "none", value |-> PyNone, exc |-> "", msg |-> "", jcalls |-> <<>>]

Init ==
    /\ call = NoCall
    /\ res = NoRes
    /\ obj = NoObj
    /\ hist = <<>>

\* a call of factory fn with arguments args, whose outcome is r; it is the
\* first step of a behaviour (each action states call = NoCall)
Invoke(fn, args, r) ==
    /\ call' = [fn |-> fn, args |-> args]
    /\ res' = r
    /\ obj' = IF r.kind = "return" THEN r.value ELSE NoObj
    /\ hist' = <<>>

\* a read of property prop of the object, whose outcome is g
Read(prop, g) ==
    /\ obj # NoObj
    /\ Len(hist) < MaxReads
    /\ hist' = Append(hist, [prop |-> prop, r |-> g.r])
    /\ obj' = g.self
    /\ UNCHANGED <<call, res>>

Sum == call = NoCall /\ \E cols \in ColsInputs : Invoke("sum_", <<cols>>, sum_(cols))
AbsSum == call = NoCall /\ \E cols \in ColsInputs : Invoke("abs_sum", <<cols>>, abs_sum(cols))
Group == call = NoCall /\ \E cols \in ColsInputs : Invoke("group", <<cols>>, group(cols))
Avg == call = NoCall /\ \E cols \in ColsInputs : Invoke("avg", <<cols>>, avg(cols))
Count == call = NoCall /\ \E col \in ColArgs : Invoke("count_", <<col>>, count_(col))
CountWhere == call = NoCall /\ \E col \in ColArgs, filters \in FiltersInputs :
    Invoke("count_where", <<col, filters>>, count_where(col, filters))
Partition == call = NoCall /\ \E col \in ColArgs, include_by_columns \in Bools :
    Invoke("partition", <<col, include_by_columns>>, partition(col, include_by_columns))
CountDistinct == call = NoCall /\ \E cols \in ColsInputs, count_nulls \in Bools :
    Invoke("count_distinct", <<cols, count_nulls>>, count_distinct(cols, count_nulls))
First == call = NoCall /\ \E cols \in ColsInputs : Invoke("first", <<cols>>, first(cols))
Formula == call = NoCall /\ \E f \in Formulas, formula_param \in FormulaParams, cols \in ColsInputs :
    Invoke("formula", <<f, formula_param, cols>>, formula(f, formula_param, cols))
Last == call = NoCall /\ \E cols \in ColsInputs : Invoke("last", <<cols>>, last(cols))
Min == call = NoCall /\ \E cols \in ColsInputs : Invoke("min_", <<cols>>, min_(cols))
Max == call = NoCall /\ \E cols \in ColsInputs : Invoke("max_", <<cols>>, max_(cols))
Median == call = NoCall /\ \E cols \in ColsInputs, average_evenly_divided \in Bools :
    Invoke("median", <<cols, average_evenly_divided>>, median(cols, average_evenly_divided))
Pct == call = NoCall /\ \E percentile \in Percentiles, cols \in ColsInputs, average_evenly_divided \in Bools :
    Invoke("pct", <<percentile, cols, average_evenly_divided>>, pct(percentile, cols, average_evenly_divided))
SortedFirst == call = NoCall /\ \E order_by \in SortCols, cols \in ColsInputs :
    Invoke("sorted_first", <<order_by, cols>>, sorted_first(order_by, cols))
SortedLast == call = NoCall /\ \E order_by \in SortCols, cols \in ColsInputs :
    Invoke("sorted_last", <<order_by, cols>>, sorted_last(order_by, cols))
Std == call = NoCall /\ \E cols \in ColsInputs : Invoke("std", <<cols>>, std(cols))
Unique == call = NoCall /\ \E cols \in ColsInputs, include_nulls \in Bools, non_unique_sentinel \in Sentinels :
    Invoke("unique", <<cols, include_nulls, non_unique_sentinel>>, unique(cols, include_nulls, non_unique_sentinel))
Var == call = NoCall /\ \E cols \in ColsInputs : Invoke("var", <<cols>>, var(cols))
WeightedAvg == call = NoCall /\ \E wcol \in SortCols, cols \in ColsInputs :
    Invoke("weighted_avg", <<wcol, cols>>, weighted_avg(wcol, cols))
WeightedSum == call = NoCall /\ \E wcol \in SortCols, cols \in ColsInputs :
    Invoke("weighted_sum", <<wcol, cols>>, weighted_sum(wcol, cols))
Distinct == call = NoCall /\ \E cols \in ColsInputs, include_nulls \in Bools :
    Invoke("distinct", <<cols, include_nulls>>, distinct(cols, include_nulls))

\* Aggregation(j_agg_spec, j_aggregation, cols) instantiated directly
Construct == call = NoCall /\ \E s \in DirectSpecs, a \in DirectAggs, cols \in ColsInputs :
    Invoke("Aggregation", <<s, a, cols>>, Return(Aggregation(s, a, cols), <<>>))

ReadJAggregation == Read("j_aggregation", j_aggregation(obj))
ReadJAggSpec == Read("j_agg_spec", j_agg_spec(obj))
ReadIsFormula == Read("is_formula", is_formula(obj))

Next ==
    \/ Sum \/ AbsSum \/ Group \/ Avg \/ Count \/ CountWhere \/ Partition
    \/ CountDistinct \/ First \/ Formula \/ Last \/ Min \/ Max \/ Median \/ Pct
    \/ SortedFirst \/ SortedLast \/ Std \/ Unique \/ Var \/ WeightedAvg
    \/ WeightedSum \/ Distinct
    \/ ReadJAggregation \/ ReadJAggSpec \/ ReadIsFormula

\* the module's public surface: factory calls and property reads
Spec == Init /\ [][Next]_vars

NextDirect == Next \/ Construct

\* the same, with Aggregation also instantiated directly
SpecDirect == Init /\ [][NextDirect]_vars

(***************************************************************************)
(* Vocabulary of the properties.                                           *)
(***************************************************************************)
\* the factories that take a column list and store a spec
ColumnListFns == {"sum_", "abs_sum", "group", "avg", "count_distinct", "first", "last", "min_", "max_",
                  "median", "pct", "sorted_first", "sorted_last", "std", "unique", "var",
                  "weighted_avg", "weighted_sum", "distinct"}

\* the cols argument of the last call (a column-list factory or formula)
ColsArg ==
    IF call.fn \in {"pct", "sorted_first", "sorted_last", "weighted_avg", "weighted_sum"} THEN call.args[2]
    ELSE IF call.fn \in {"formula", "Aggregation"} THEN call.args[3]
    ELSE call.args[1]

\* the columns (or filters) a caller supplied: none, the one value, or the list's
Supplied(v) == IF v.t = "None" THEN <<>> ELSE IF v.t = "list" THEN v.l ELSE <<v>>

\* the reads of property prop made so far
ReadsOf(prop) == {i \in 1..Len(hist) : hist[i].prop = prop}

RaisedDHError(r) == r.kind = "raise" /\ r.exc = "DHError"

NoColumnsMsg == "No columns specified for the aggregation operation."

\* formula() was called in parameterized mode without any column
FormulaParamNoCols == call.fn = "formula" /\ Truthy(call.args[2]) /\ Supplied(call.args[3]) = <<>>

\* C1 as stated: formula() called with a formula_param and no column list (None
\* or an empty list) fails with a DHError at construction and returns nothing.
C1_Eager == FormulaParamNoCols => RaisedDHError(res) /\ obj = NoObj

\* C1, amended: formula() called with a formula_param and no column list returns
\* an Aggregation holding an AggSpecFormula spec, no complete aggregation and an
\* empty column list; the DHError ("No columns specified") is raised only when
\* j_aggregation is read, while j_agg_spec returns the spec.
C1_Lazy ==
    FormulaParamNoCols =>
        /\ res.kind = "return"
        /\ obj # NoObj
        /\ IsInstance(obj._j_agg_spec, "io.deephaven.api.agg.spec.AggSpecFormula")
        /\ obj._j_aggregation = PyNone
        /\ obj._cols = <<>>
        /\ \A i \in ReadsOf("j_aggregation") : hist[i].r = DHError(NoColumnsMsg, <<>>)
        /\ \A i \in ReadsOf("j_agg_spec") : hist[i].r = Return(obj._j_agg_spec, <<>>)

C1_Witness ==
    /\ FormulaParamNoCols
    /\ call.args[3] = PyList(<<>>)
    /\ ReadsOf("j_aggregation") # {}
    /\ ReadsOf("j_agg_spec") # {}

\* C2: formula() without a formula_param (None or "") raises a DHError and
\* returns nothing whenever a non-empty column list is supplied; with no column
\* supplied either it returns an object wrapping a complete Formula aggregation
\* (no spec, no columns) whose j_aggregation reads return that aggregation.
C2_FormulaColsNeedParam ==
    (call.fn = "formula" /\ ~Truthy(call.args[2])) =>
        IF Supplied(call.args[3]) # <<>>
        THEN RaisedDHError(res) /\ obj = NoObj /\ res.jcalls = <<>>
        ELSE /\ res.kind = "return"
             /\ obj # NoObj
             /\ obj._j_aggregation = JAggregation("AggFormula", <<call.args[1]>>)
             /\ IsInstance(obj._j_aggregation, "io.deephaven.api.agg.Formula")
             /\ obj._j_agg_spec = PyNone
             /\ obj._cols = <<>>
             /\ \A i \in ReadsOf("j_aggregation") : hist[i].r = Return(obj._j_aggregation, <<>>)

C2_Witness ==
    /\ call.fn = "formula"
    /\ call.args[2] = PyStr(<<>>)
    /\ call.args[3].t = "list"
    /\ Len(call.args[3].l) = 2
    /\ RaisedDHError(res)

\* C3: unique() raises a DHError exactly when include_nulls is true and
\* non_unique_sentinel is None; in every other case it returns an Aggregation
\* holding a unique spec and the supplied columns, also for the falsy sentinels
\* 0, False and ""; with no sentinel and include_nulls false the spec is the
\* parameterless one.
C3_UniqueSentinel ==
    call.fn = "unique" =>
        /\ RaisedDHError(res) <=> (call.args[2] = PyBool(TRUE) /\ call.args[3] = PyNone)
        /\ res.kind = "raise" => obj = NoObj
        /\ res.kind = "return" =>
              /\ obj # NoObj
              /\ obj._j_aggregation = PyNone
              /\ obj._cols = Supplied(call.args[1])
              /\ obj._j_agg_spec =
                    IF call.args[3] = PyNone
                    THEN JAggSpec("unique", <<>>)
                    ELSE JAggSpec("unique", <<call.args[2], JUnionObject(call.args[3])>>)

C3_Witness ==
    /\ call.fn = "unique"
    /\ call.args[2] = PyBool(TRUE)
    /\ call.args[3] = PyInt(0)
    /\ res.kind = "return"
    /\ obj # NoObj

\* a column-list factory was given a column expression with more than one "="
MalformedCol == call.fn \in ColumnListFns /\ \E i \in 1..Len(Supplied(ColsArg)) : ~Parses(Supplied(ColsArg)[i])

\* C4 as stated: a column-list factory given a rename expression that does not
\* parse into exactly one "=" fails with a DHError at construction.
C4_Eager == MalformedCol => RaisedDHError(res) /\ obj = NoObj

\* C4, amended: a column-list factory given such an expression returns an
\* Aggregation at construction, storing the expressions unparsed and making no
\* parse call; the expression reaches the engine's pair parser only when
\* j_aggregation is read, and that read raises the engine's error (not a
\* DHError); reads of j_agg_spec and is_formula succeed.  (unique() called
\* with include_nulls and no sentinel raises its DHError for that, whatever
\* the columns are.)
C4_Lazy ==
    (MalformedCol /\ ~(call.fn = "unique" /\ call.args[2] = PyBool(TRUE) /\ call.args[3] = PyNone)) =>
        /\ res.kind = "return"
        /\ obj # NoObj
        /\ obj._cols = Supplied(ColsArg)
        /\ Len(res.jcalls) <= 2
        /\ \A k \in 1..Len(res.jcalls) : res.jcalls[k] \in {"UnionObject.of", "AggSpec.sum", "AggSpec.absSum",
              "AggSpec.group", "AggSpec.avg", "AggSpec.countDistinct", "AggSpec.first", "AggSpec.last",
              "AggSpec.min", "AggSpec.max", "AggSpec.median", "AggSpec.percentile", "AggSpec.sortedFirst",
              "AggSpec.sortedLast", "AggSpec.std", "AggSpec.unique", "AggSpec.var", "AggSpec.wavg",
              "AggSpec.wsum", "AggSpec.distinct"}
        /\ \A i \in ReadsOf("j_aggregation") :
              /\ hist[i].r.kind = "raise"
              /\ hist[i].r.exc # "DHError"
              /\ hist[i].r.jcalls = ParsedPrefix(Supplied(ColsArg))
        /\ \A i \in ReadsOf("j_agg_spec") : hist[i].r = Return(obj._j_agg_spec, <<>>)
        /\ \A i \in ReadsOf("is_formula") : hist[i].r = Return(PyBool(FALSE), <<>>)

C4_Witness ==
    /\ MalformedCol
    /\ call.fn = "sum_"
    /\ Len(hist) >= 2
    /\ hist[1].prop = "j_agg_spec"
    /\ hist[2].prop = "j_aggregation"
    /\ hist[2].r.kind = "raise"

\* C5: count_(col) and partition(col, ...) raise a DHError for every col that
\* is not a string, before any engine object is created; for a string col they
\* return an Aggregation wrapping a complete aggregation (j_aggregation set, no
\* spec, no columns).
C5_CountPartitionCol ==
    call.fn \in {"count_", "partition"} =>
        IF ~IsStr(call.args[1])
        THEN RaisedDHError(res) /\ res.jcalls = <<>> /\ obj = NoObj
        ELSE /\ res.kind = "return"
             /\ obj # NoObj
             /\ obj._j_aggregation =
                   IF call.fn = "count_" THEN JAggregation("AggCount", <<call.args[1]>>)
                   ELSE JAggregation("AggPartition", <<call.args[1], call.args[2]>>)
             /\ obj._j_agg_spec = PyNone
             /\ obj._cols = <<>>

C5_Witness ==
    /\ call.fn = "partition"
    /\ call.args[1] = PyList(<<PyStr(<<"n">>)>>)
    /\ RaisedDHError(res)
    /\ res.jcalls = <<>>

\* C6: count_where(col, filters) raises a DHError when col is not a string,
\* before any filter is examined; otherwise it returns one complete
\* AggCountWhere aggregation for col whose predicate is true of a row exactly
\* when every supplied filter is, a single string or Filter counting as a
\* one-element list.
C6_CountWhereAnd ==
    call.fn = "count_where" =>
        IF ~IsStr(call.args[1])
        THEN RaisedDHError(res) /\ res.jcalls = <<>> /\ obj = NoObj
        ELSE /\ res.kind = "return"
             /\ obj # NoObj
             /\ obj._j_agg_spec = PyNone
             /\ obj._cols = <<>>
             /\ obj._j_aggregation.iface = "Aggregation"
             /\ obj._j_aggregation.method = "AggCountWhere"
             /\ Len(obj._j_aggregation.args) = 2
             /\ obj._j_aggregation.args[1] = call.args[1]
             /\ \A row \in Rows :
                   JFilterEval(obj._j_aggregation.args[2], row)
                       <=> \A k \in 1..Len(Supplied(call.args[2])) : JFilterEval(Supplied(call.args[2])[k], row)

C6_Witness ==
    /\ call.fn = "count_where"
    /\ res.kind = "return"
    /\ call.args[2].t = "list"
    /\ Len(call.args[2].l) = 2
    /\ call.args[2].l[1] # call.args[2].l[2]
    /\ \E row \in Rows : JFilterEval(call.args[2].l[1], row) /\ ~JFilterEval(obj._j_aggregation.args[2], row)

\* C7: an Aggregation is immutable once constructed: whatever properties are
\* read, in whatever order and whether or not they raise, the object keeps the
\* spec, aggregation and columns it was constructed with, and two reads of the
\* same property have the same outcome.
C7_Immutable ==
    obj # NoObj =>
        /\ obj = res.value
        /\ \A i, j \in 1..Len(hist) : hist[i].prop = hist[j].prop => hist[i].r = hist[j].r

C7_Witness ==
    /\ obj # NoObj
    /\ Len(hist) = 3
    /\ hist[1].prop = "j_aggregation"
    /\ hist[1].r.kind = "return"
    /\ hist[1].r.value # obj._j_aggregation
    /\ hist[2].prop = "j_agg_spec"
    /\ hist[3].prop = "j_aggregation"

\* C8: a read of j_aggregation returns the complete aggregation when the object
\* wraps one, whatever its columns; otherwise, with no column (cols was None or
\* an empty list) it raises DHError "No columns specified"; otherwise it hands
\* the supplied columns, one by one and in the supplied order (a single string
\* being a one-element list), to the pair parser and binds the spec to exactly
\* those pairs.  A column-list factory given no column returns an Aggregation
\* and fails only at that read.
C8_Materialise ==
    /\ (call.fn \in ColumnListFns /\ Supplied(ColsArg) = <<>> /\ res.kind = "raise") => call.fn = "unique"
    /\ \A i \in ReadsOf("j_aggregation") :
          IF obj._j_aggregation # PyNone
          THEN hist[i].r = Return(obj._j_aggregation, <<>>)
          ELSE IF Supplied(ColsArg) = <<>>
               THEN hist[i].r = DHError(NoColumnsMsg, <<>>)
               ELSE IF \A k \in 1..Len(Supplied(ColsArg)) : Parses(Supplied(ColsArg)[k])
                    THEN /\ hist[i].r.kind = "return"
                         /\ hist[i].r.jcalls = Supplied(ColsArg)
                         /\ hist[i].r.value.iface = "Aggregation"
                         /\ hist[i].r.value.spec = obj._j_agg_spec
                         /\ Len(hist[i].r.value.pairs) = Len(Supplied(ColsArg))
                         /\ \A k \in 1..Len(Supplied(ColsArg)) :
                               hist[i].r.value.pairs[k] = JPairParse(Supplied(ColsArg)[k]).value
                    ELSE /\ hist[i].r.kind = "raise"
                         /\ hist[i].r.jcalls = ParsedPrefix(Supplied(ColsArg))

C8_Witness ==
    /\ call.fn = "avg"
    /\ ColsArg = PyList(<<PyStr(<<"b", "=", "a">>), PyStr(<<"a">>)>>)
    /\ Len(hist) >= 1
    /\ hist[1].prop = "j_aggregation"
    /\ hist[1].r.kind = "return"
    /\ hist[1].r.value.pairs[1].output = <<"b">>
    /\ hist[1].r.value.pairs[1].input = <<"a">>
    /\ hist[1].r.value.pairs[2].output = <<"a">>

\* the last call built an object around a complete aggregation
BuiltComplete == call.fn \in {"count_", "count_where", "partition"} \/ (call.fn = "formula" /\ ~Truthy(call.args[2]))

\* the last call built an object around a spec
BuiltSpec == call.fn \in ColumnListFns \/ (call.fn = "formula" /\ Truthy(call.args[2]))

\* C9: a read of j_agg_spec raises DHError "unsupported aggregation operation"
\* on every Aggregation built by count_, count_where, partition or formula
\* without formula_param, and returns the stored spec on every Aggregation built
\* by a column-list factory, with or without columns.
C9_SpecRead ==
    \A i \in ReadsOf("j_agg_spec") :
        /\ BuiltComplete => hist[i].r = DHError("unsupported aggregation operation.", <<>>)
        /\ BuiltSpec => /\ hist[i].r = Return(obj._j_agg_spec, <<>>)
                        /\ hist[i].r.value.t = "J"
                        /\ hist[i].r.value.iface = "AggSpec"

C9_Witness ==
    /\ call.fn = "count_where"
    /\ Len(hist) >= 1
    /\ hist[1].prop = "j_agg_spec"
    /\ RaisedDHError(hist[1].r)

\* C10: every Aggregation a factory returns has exactly one of its two
\* representations set; is_formula never raises on it, and is true exactly for
\* the objects formula() built (in either mode).  is_formula raises (a DHError)
\* only on a directly constructed Aggregation with neither representation.
C10_OneRepresentation ==
    /\ (obj # NoObj /\ call.fn # "Aggregation") =>
          (obj._j_agg_spec # PyNone) # (obj._j_aggregation # PyNone)
    /\ \A i \in ReadsOf("is_formula") :
          /\ call.fn # "Aggregation" => hist[i].r = Return(PyBool(call.fn = "formula"), <<>>)
          /\ hist[i].r.kind = "raise" <=>
                (call.fn = "Aggregation" /\ obj._j_agg_spec = PyNone /\ obj._j_aggregation = PyNone)
          /\ hist[i].r.kind = "raise" => RaisedDHError(hist[i].r)

C10_Witness ==
    /\ call.fn = "formula"
    /\ call.args[2] = PyNone
    /\ Len(hist) >= 1
    /\ hist[1].prop = "is_formula"
    /\ hist[1].r = Return(PyBool(TRUE), <<>>)

====
